---- MODULE Spec2Model ----
(***************************************************************************)
(* Model of src/main.py: the filename normaliser (normalize_for_match),    *)
(* the similarity score (fuzz.ratio as called by group_files), the greedy  *)
(* grouping engine (group_files), the per-group summary rows and the sheet *)
(* naming loop of scan_files.                                              *)
(*                                                                         *)
(* A Python str is a sequence of one-character strings; Ord gives the code *)
(* point of each character, which is what Python compares when it sorts.   *)
(* Paths use the POSIX separator "/".                                      *)
(***************************************************************************)
EXTENDS Integers, Sequences, FiniteSets, TLC

VARIABLES pc,            \* position of the modelled call
          filename,      \* normalize_for_match: argument
          normalized,    \* normalize_for_match: return value
          s1, s2,        \* fuzz.ratio: arguments
          score,         \* fuzz.ratio: return value
          file_list,     \* group_files: argument file_list
          threshold,     \* group_files: argument threshold
          groups,        \* group_files: return value
          data,          \* scan_files: the rows built from the groups
          paths,         \* scan_files: argument paths
          sheet_names,   \* scan_files: argument sheet_names
          collected,     \* scan_files: all_collected_files of every path
          idx,           \* scan_files: loop index i
          sheets,        \* scan_files: the writer's sheets, title -> rows
          written        \* scan_files: titles in the order they were written

vars == <<pc, filename, normalized, s1, s2, score, file_list, threshold,
          groups, data, paths, sheet_names, collected, idx, sheets, written>>

----------------------------------------------------------------------------
(* Characters and Python's str primitives.                                 *)

Ord == [c \in {" ", "(", ")", ".", "/", "0", "1", "2", "3", "4", "5", "6",
               "7", "8", "9", "A", "B", "D", "P", "R", "_", "a", "b", "c", "d",
               "f", "i", "l", "n", "o", "p", "r", "t", "x", "y"} |->
          CASE c = " " -> 32 [] c = "(" -> 40 [] c = ")" -> 41
            [] c = "." -> 46 [] c = "/" -> 47
            [] c = "0" -> 48 [] c = "1" -> 49 [] c = "2" -> 50
            [] c = "3" -> 51 [] c = "4" -> 52 [] c = "5" -> 53
            [] c = "6" -> 54 [] c = "7" -> 55 [] c = "8" -> 56
            [] c = "9" -> 57
            [] c = "A" -> 65 [] c = "B" -> 66 [] c = "D" -> 68
            [] c = "P" -> 80 [] c = "R" -> 82 [] c = "_" -> 95
            [] c = "a" -> 97 [] c = "b" -> 98 [] c = "c" -> 99
            [] c = "d" -> 100 [] c = "f" -> 102 [] c = "i" -> 105
            [] c = "l" -> 108 [] c = "n" -> 110 [] c = "o" -> 111
            [] c = "p" -> 112 [] c = "r" -> 114 [] c = "t" -> 116
            [] c = "x" -> 120 [] c = "y" -> 121]

Chars == DOMAIN Ord

Chr(n) == CHOOSE c \in Chars : Ord[c] = n

\* str.lower() on one character: "A".."Z" map to "a".."z".
LowerChar(c) == IF Ord[c] >= 65 /\ Ord[c] <= 90 THEN Chr(Ord[c] + 32) ELSE c

\* str.lower()
Lower(s) == [k \in 1..Len(s) |-> LowerChar(s[k])]

\* s[lo:hi] with 0 <= lo, hi <= len(s) (Python indices).
Slice(s, lo, hi) == SubSeq(s, lo + 1, hi)

\* s.rfind(c): the Python index of the last occurrence of c, or -1.
RECURSIVE rfindFrom(_, _, _)
rfindFrom(s, c, k) ==
    IF k = 0 THEN -1
    ELSE IF s[k] = c THEN k - 1
    ELSE rfindFrom(s, c, k - 1)

rfind(s, c) == rfindFrom(s, c, Len(s))

\* s.endswith(suffix)
endswith(s, suffix) ==
    /\ Len(suffix) <= Len(s)
    /\ Slice(s, Len(s) - Len(suffix), Len(s)) = suffix

\* a < b for Python strings: code-point lexicographic order.
RECURSIVE StrLess(_, _)
StrLess(a, b) ==
    IF b = <<>> THEN FALSE
    ELSE IF a = <<>> THEN TRUE
    ELSE IF Ord[Head(a)] # Ord[Head(b)] THEN Ord[Head(a)] < Ord[Head(b)]
    ELSE StrLess(Tail(a), Tail(b))

\* os.path.basename(p): p[p.rfind("/") + 1:]
basename(p) == Slice(p, rfind(p, "/") + 1, Len(p))

\* The loop of genericpath._splitext that skips the leading dots of the
\* file name: TRUE when a character other than "." precedes dotIndex.
RECURSIVE SkipLeadingDots(_, _, _)
SkipLeadingDots(p, filenameIndex, dotIndex) ==
    IF filenameIndex < dotIndex
    THEN IF p[filenameIndex + 1] # "." THEN TRUE
         ELSE SkipLeadingDots(p, filenameIndex + 1, dotIndex)
    ELSE FALSE

\* os.path.splitext(p)[0]
splitext_root(p) ==
    LET sepIndex == rfind(p, "/")
        dotIndex == rfind(p, ".")
    IN IF dotIndex > sepIndex /\ SkipLeadingDots(p, sepIndex + 1, dotIndex)
       THEN Slice(p, 0, dotIndex)
       ELSE p

\* normalize_for_match with a splitext that cuts at every final dot.
normalize_cut_any_dot(name) ==
    LET dotIndex == rfind(name, ".")
    IN Lower(IF dotIndex >= 0 THEN Slice(name, 0, dotIndex) ELSE name)

normalize_for_match(name) == Lower(splitext_root(name))

----------------------------------------------------------------------------
(* Bounds and input domains.                                               *)

MaxNameLen == 3

NormAlphabet == {"a", "B", ".", "c"}

RECURSIVE StringsOver(_, _)
StringsOver(alphabet, n) ==
    IF n = 0 THEN {<<>>}
    ELSE LET shorter == StringsOver(alphabet, n - 1)
         IN shorter \cup {Append(s, c) : s \in {t \in shorter : Len(t) = n - 1},
                                          c \in alphabet}

----------------------------------------------------------------------------
(* normalize_for_match applied to one file name.                           *)

OtherNormVars == <<s1, s2, score, file_list, threshold, groups, data, paths,
                   sheet_names, collected, idx, sheets, written>>

InitNorm ==
    /\ pc = "norm_call"
    /\ filename \in StringsOver(NormAlphabet, MaxNameLen)
    /\ normalized = <<>>
    /\ s1 = <<>> /\ s2 = <<>> /\ score = 0
    /\ file_list = <<>> /\ threshold = 0 /\ groups = <<>> /\ data = <<>>
    /\ paths = <<>> /\ sheet_names = <<>> /\ collected = <<>> /\ idx = 0
    /\ sheets = <<>> /\ written = <<>>

Normalize ==
    /\ pc = "norm_call"
    /\ normalized' = normalize_for_match(filename)
    /\ pc' = "norm_done"
    /\ UNCHANGED <<filename, OtherNormVars>>

NextNorm == Normalize

SpecNorm == InitNorm /\ [][NextNorm]_vars

\* The dot that os.path.splitext treats as the start of the extension: the
\* last dot, provided some character before it is not a dot.
HasExtension(name) ==
    \E k \in 1..Len(name) :
        /\ name[k] = "."
        /\ \A m \in (k + 1)..Len(name) : name[m] # "."
        /\ \E m \in 1..(k - 1) : name[m] # "."

LastDot(name) == CHOOSE k \in 1..Len(name) :
                    name[k] = "." /\ \A m \in (k + 1)..Len(name) : name[m] # "."

\* C9 (as stated): the result is the lowercased name cut at its final dot
\* whenever the name contains a dot, and the lowercased name otherwise.
C9_AsStated ==
    pc = "norm_done" =>
        normalized = (IF \E k \in 1..Len(filename) : filename[k] = "."
                      THEN Lower(SubSeq(filename, 1, LastDot(filename) - 1))
                      ELSE Lower(filename))

\* C9 (amended): the result is the lowercased name cut at its final dot when
\* some character before that dot is not a dot; a name without a dot, or
\* whose final dot is preceded only by dots, is returned lowercased whole.
C9_Normalize ==
    pc = "norm_done" =>
        normalized = (IF HasExtension(filename)
                      THEN Lower(SubSeq(filename, 1, LastDot(filename) - 1))
                      ELSE Lower(filename))

\* A dot-led name has been normalised and came back whole, lowercased.
C9_Witness ==
    /\ pc = "norm_done"
    /\ filename = <<".", "B">>
    /\ normalized = <<".", "b">>

----------------------------------------------------------------------------
(* fuzz.ratio(s1, s2): thefuzz rounds rapidfuzz's ratio, the normalised    *)
(* Indel similarity 100 * (1 - (len1 + len2 - 2 * LCS) / (len1 + len2)),   *)
(* where LCS is the length of the longest common subsequence; two empty    *)
(* strings have similarity 100.                                            *)

\* One cell of the LCS table from its three neighbours, without the move
\* that skips a character of the second string.
LcsCell_NoLeft(diag, up, left, same) ==
    IF same THEN diag + 1 ELSE up

\* One cell of the LCS table from its three neighbours.
LcsCell(diag, up, left, same) ==
    IF same THEN diag + 1
    ELSE IF up >= left THEN up ELSE left

\* One row of the LCS table: prev is the row above, x the character of
\* the first string, cur the cells of this row computed so far.
RECURSIVE LcsRow(_, _, _, _)
LcsRow(prev, x, b, cur) ==
    LET j == Len(cur)
    IN IF j > Len(b) THEN cur
       ELSE LcsRow(prev, x, b,
                   Append(cur, LcsCell(prev[j], prev[j + 1], cur[j], x = b[j])))

RECURSIVE LcsRows(_, _, _, _)
LcsRows(a, b, i, prev) ==
    IF i > Len(a) THEN prev[Len(b) + 1]
    ELSE LcsRows(a, b, i + 1, LcsRow(prev, a[i], b, <<0>>))

\* Length of the longest common subsequence of a and b.
lcs_seq_similarity(a, b) == LcsRows(a, b, 1, [k \in 1..(Len(b) + 1) |-> 0])

\* Python's round() of num/den (den > 0): to nearest, halves to even.
round(num, den) ==
    LET q == num \div den
        r == num % den
    IN IF 2 * r < den THEN q
       ELSE IF 2 * r > den THEN q + 1
       ELSE IF q % 2 = 0 THEN q ELSE q + 1

\* fuzz.ratio with a guard that scores any empty argument 0.
ratio_empty_is_zero(a, b) ==
    IF Len(a) = 0 \/ Len(b) = 0 THEN 0
    ELSE round(200 * lcs_seq_similarity(a, b), Len(a) + Len(b))

\* fuzz.ratio(a, b)
ratio(a, b) ==
    LET maximum == Len(a) + Len(b)
        dist    == maximum - 2 * lcs_seq_similarity(a, b)
    IN IF maximum = 0 THEN 100
       ELSE round(100 * (maximum - dist), maximum)

MaxStrLen == 5

ScoreAlphabet == {"a", "b"}

OtherScoreVars == <<filename, normalized, file_list, threshold, groups, data,
                    paths, sheet_names, collected, idx, sheets, written>>

InitScore ==
    /\ pc = "score_call"
    /\ s1 \in StringsOver(ScoreAlphabet, MaxStrLen)
    /\ s2 \in StringsOver(ScoreAlphabet, MaxStrLen)
    /\ score = 0
    /\ filename = <<>> /\ normalized = <<>>
    /\ file_list = <<>> /\ threshold = 0 /\ groups = <<>> /\ data = <<>>
    /\ paths = <<>> /\ sheet_names = <<>> /\ collected = <<>> /\ idx = 0
    /\ sheets = <<>> /\ written = <<>>

Score ==
    /\ pc = "score_call"
    /\ score' = ratio(s1, s2)
    /\ pc' = "score_done"
    /\ UNCHANGED <<s1, s2, OtherScoreVars>>

NextScore == Score

SpecScore == InitScore /\ [][NextScore]_vars

CharsOf(s) == {s[k] : k \in 1..Len(s)}

\* C7: identical non-empty strings score 100, strings without a common
\* character (not both empty) score 0, and two empty strings score 100.
C7_ScoreBoundaries ==
    pc = "score_done" =>
        /\ (s1 = s2 /\ s1 # <<>>) => score = 100
        /\ (CharsOf(s1) \cap CharsOf(s2) = {} /\ Len(s1) + Len(s2) > 0)
               => score = 0
        /\ (s1 = <<>> /\ s2 = <<>>) => score = 100

\* Two empty strings have been scored.
C7_Witness ==
    /\ pc = "score_done"
    /\ s1 = <<>> /\ s2 = <<>>
    /\ score = 100

\* The subsequence of s at the positions from k on that are in keep.
RECURSIVE Pick(_, _, _)
Pick(s, keep, k) ==
    IF k > Len(s) THEN <<>>
    ELSE IF k \in keep THEN <<s[k]>> \o Pick(s, keep, k + 1)
    ELSE Pick(s, keep, k + 1)

Subsequences(s) == {Pick(s, keep, 1) : keep \in SUBSET (1..Len(s))}

\* The largest number of characters of a that can be matched, in order, to
\* characters of b.
MaxMatched(a, b) ==
    LET common == Subsequences(a) \cap Subsequences(b)
    IN CHOOSE m \in {Len(c) : c \in common} :
           \A c \in common : Len(c) <= m

\* Length of the common block of a and b starting at positions i and j.
RECURSIVE BlockLen(_, _, _, _)
BlockLen(a, b, i, j) ==
    IF i > Len(a) \/ j > Len(b) THEN 0
    ELSE IF a[i] # b[j] THEN 0
    ELSE 1 + BlockLen(a, b, i + 1, j + 1)

\* The matched counts the longest-block decomposition can produce: match a
\* longest common block (any one of them), then recurse on the text to its
\* left and on the text to its right.
RECURSIVE BlockCounts(_, _)
BlockCounts(a, b) ==
    LET starts  == (1..Len(a)) \X (1..Len(b))
        longest == IF starts = {} THEN 0
                   ELSE CHOOSE n \in {BlockLen(a, b, p[1], p[2]) : p \in starts} :
                          \A p \in starts : BlockLen(a, b, p[1], p[2]) <= n
    IN IF longest = 0 THEN {0}
       ELSE UNION { { longest + l + r :
                        l \in BlockCounts(SubSeq(a, 1, p[1] - 1),
                                          SubSeq(b, 1, p[2] - 1)),
                        r \in BlockCounts(SubSeq(a, p[1] + longest, Len(a)),
                                          SubSeq(b, p[2] + longest, Len(b))) }
                    : p \in {q \in starts : BlockLen(a, b, q[1], q[2]) = longest} }

\* C8 (as stated): the score is an integer in 0..100, symmetric, and equal
\* to round(100 * 2M / (len(a) + len(b))) for a matched count M of the
\* recursive longest-common-block decomposition.
C8_AsStated ==
    (pc = "score_done" /\ Len(s1) + Len(s2) > 0) =>
        /\ score \in 0..100
        /\ score = ratio(s2, s1)
        /\ \E m \in BlockCounts(s1, s2) :
               score = round(200 * m, Len(s1) + Len(s2))

\* C8 (amended): the score is an integer in 0..100, symmetric, and equal to
\* round(100 * 2M / (len(a) + len(b))) where M is the length of the longest
\* common subsequence of a and b (the largest number of characters that can
\* be matched in order), which no block decomposition exceeds.
C8_ScoreSymmetric ==
    (pc = "score_done" /\ Len(s1) + Len(s2) > 0) =>
        /\ score \in 0..100
        /\ score = ratio(s2, s1)
        /\ score = round(200 * MaxMatched(s1, s2), Len(s1) + Len(s2))
        /\ \A m \in BlockCounts(s1, s2) : m <= MaxMatched(s1, s2)

\* A pair has been scored whose longest common subsequence is longer than
\* what any longest-block decomposition matches.
C8_Witness ==
    /\ pc = "score_done"
    /\ s1 = <<"a", "a", "a", "b">>
    /\ s2 = <<"a", "a", "b", "a", "b">>
    /\ score = 89
    /\ BlockCounts(s1, s2) = {3}

----------------------------------------------------------------------------
(* group_files(file_list, threshold) and the summary rows scan_files       *)
(* builds from its groups.  A file record is the tuple <<path, mtime>>.    *)

\* datetime.min, the modification time get_mod_time returns on failure.
datetime_min == 0

\* Insertion of x behind every record whose path is not greater: the place
\* a stable sort by path gives it.
RECURSIVE InsertByPath(_, _)
InsertByPath(s, x) ==
    IF s = <<>> THEN <<x>>
    ELSE IF StrLess(x[1], Head(s)[1]) THEN <<x>> \o s
    ELSE <<Head(s)>> \o InsertByPath(Tail(s), x)

RECURSIVE SortedPrefix(_, _)
SortedPrefix(list, n) ==
    IF n = 0 THEN <<>>
    ELSE InsertByPath(SortedPrefix(list, n - 1), list[n])

\* group_files without the sort: the records in input order.
sorted_by_path_unsorted(list) == list

\* sorted(file_list, key=lambda x: x[0])
sorted_by_path(list) == SortedPrefix(list, Len(list))

\* The match test without the exact comparison of the normalized names.
is_match_fuzzy_only(norm_name, norm_other, thr) ==
    ratio(norm_name, norm_other) >= thr

\* The match test with the threshold comparison turned around.
is_match_below(norm_name, norm_other, thr) ==
    \/ norm_name = norm_other
    \/ ratio(norm_name, norm_other) <= thr

\* The match test without the fuzzy comparison.
is_match_exact_only(norm_name, norm_other, thr) ==
    norm_name = norm_other

\* The test of the inner loop: equal normalized names, or a score of at
\* least the threshold.
is_match(norm_name, norm_other, thr) ==
    \/ norm_name = norm_other
    \/ ratio(norm_name, norm_other) >= thr

\* A match that is appended to the group but not recorded as assigned.
add_assigned_forgotten(assigned_indices, j) == assigned_indices

\* assigned_indices.add(j)
add_assigned(assigned_indices, j) == assigned_indices \cup {j}

\* The inner loop with a moving anchor: after a match the next candidates
\* are compared with the name of the member just added.
RECURSIVE inner_loop_chained(_, _, _, _, _, _)
inner_loop_chained(sorted_files, thr, norm_name, j, current_group, assigned_indices) ==
    IF j > Len(sorted_files) THEN <<current_group, assigned_indices>>
    ELSE IF j \in assigned_indices
    THEN inner_loop_chained(sorted_files, thr, norm_name, j + 1, current_group,
                            assigned_indices)
    ELSE LET other_file == sorted_files[j]
             norm_other == normalize_for_match(basename(other_file[1]))
         IN IF norm_name = norm_other \/ ratio(norm_name, norm_other) >= thr
            THEN inner_loop_chained(sorted_files, thr, norm_other, j + 1,
                                    Append(current_group, other_file),
                                    assigned_indices \cup {j})
            ELSE inner_loop_chained(sorted_files, thr, norm_name, j + 1,
                                    current_group, assigned_indices)

\* The inner loop over j (1-based) of one anchor: the grown group and the
\* grown set of assigned indices.
RECURSIVE inner_loop(_, _, _, _, _, _)
inner_loop(sorted_files, thr, norm_name, j, current_group, assigned_indices) ==
    IF j > Len(sorted_files) THEN <<current_group, assigned_indices>>
    ELSE IF j \in assigned_indices
    THEN inner_loop(sorted_files, thr, norm_name, j + 1, current_group,
                    assigned_indices)
    ELSE LET other_file == sorted_files[j]
             norm_other == normalize_for_match(basename(other_file[1]))
         IN IF is_match(norm_name, norm_other, thr)
            THEN inner_loop(sorted_files, thr, norm_name, j + 1,
                            Append(current_group, other_file),
                            add_assigned(assigned_indices, j))
            ELSE inner_loop(sorted_files, thr, norm_name, j + 1,
                            current_group, assigned_indices)

\* The outer loop over i (1-based).
RECURSIVE outer_loop(_, _, _, _, _)
outer_loop(sorted_files, thr, i, assigned_indices, acc) ==
    IF i > Len(sorted_files) THEN acc
    ELSE IF i \in assigned_indices
    THEN outer_loop(sorted_files, thr, i + 1, assigned_indices, acc)
    ELSE LET current_file == sorted_files[i]
             norm_name == normalize_for_match(basename(current_file[1]))
             grown == inner_loop(sorted_files, thr, norm_name, i + 1,
                                 <<current_file>>,
                                 add_assigned(assigned_indices, i))
         IN outer_loop(sorted_files, thr, i + 1, grown[2],
                       Append(acc, grown[1]))

group_files(list, thr) == outer_loop(sorted_by_path(list), thr, 1, {}, <<>>)

\* ", ".join(names)
RECURSIVE join(_)
join(names) ==
    IF names = <<>> THEN <<>>
    ELSE IF Len(names) = 1 THEN names[1]
    ELSE names[1] \o <<",", " ">> \o join(Tail(names))

\* max over the later members that prefers the later of two equal times.
RECURSIVE max_by_mtime_last(_, _, _)
max_by_mtime_last(group, k, best) ==
    IF k > Len(group) THEN best
    ELSE max_by_mtime_last(group, k + 1,
                           IF group[k][2] >= best[2] THEN group[k] ELSE best)

\* max(group, key=lambda x: x[1]) from member k on: a later member replaces
\* the best so far only when its time is strictly greater.
RECURSIVE max_by_mtime(_, _, _)
max_by_mtime(group, k, best) ==
    IF k > Len(group) THEN best
    ELSE max_by_mtime(group, k + 1,
                      IF group[k][2] > best[2] THEN group[k] ELSE best)

\* max((f[1] for f in group), default=datetime.min)
RECURSIVE max_mtime(_, _, _)
max_mtime(group, k, best) ==
    IF k > Len(group) THEN best
    ELSE max_mtime(group, k + 1, IF group[k][2] > best THEN group[k][2] ELSE best)

YesNo(b) == IF b THEN "Yes" ELSE "No"

\* The row scan_files appends to data for one group.
summary_row(group) ==
    LET all_names == [k \in 1..Len(group) |-> basename(group[k][1])]
        pdf_exists == \E k \in 1..Len(group) :
                         endswith(Lower(group[k][1]), <<".", "p", "d", "f">>)
        word_exists == \E k \in 1..Len(group) :
                         \/ endswith(Lower(group[k][1]), <<".", "d", "o", "c">>)
                         \/ endswith(Lower(group[k][1]),
                                     <<".", "d", "o", "c", "x">>)
        last_modified == IF group = <<>> THEN datetime_min
                         ELSE max_mtime(group, 2, group[1][2])
        most_recent_file == max_by_mtime(group, 2, group[1])
    IN [file_name      |-> splitext_root(basename(most_recent_file[1])),
        pdf_exists     |-> YesNo(pdf_exists),
        word_exists    |-> YesNo(word_exists),
        last_modified  |-> last_modified,
        all_file_names |-> join(all_names)]

summary_rows(grouped_files) ==
    [g \in 1..Len(grouped_files) |-> summary_row(grouped_files[g])]

MaxFiles == 3

MaxTime == 1

Times == datetime_min..MaxTime

ScenarioTimes == datetime_min..(MaxTime + 1)

\* Short paths: two spellings of the stem "a", a stem that scores 50
\* against it, two files of the stem "bc", which scores 80 against "abc"
\* and 0 against "a", and "B", which sorts between the two spellings of
\* "a" and scores 0 against them.
ShortPaths == { <<"A", ".", "p">>, <<"B">>, <<"a">>, <<"a", "b", "c">>,
                <<"b", "c">>, <<"d", "/", "b", "c">> }

b_draft_docx == <<"b", "_", "d", "r", "a", "f", "t", ".", "d", "o", "c", "x">>

a_final_pdf == <<"a", "_", "f", "i", "n", "a", "l", ".", "p", "d", "f">>

a_final_copy_pdf == <<"a", "_", "f", "i", "n", "a", "l", " ", "(", "c", "o",
                      "p", "y", ")", ".", "p", "d", "f">>

RECURSIVE ListsOver(_, _)
ListsOver(records, n) ==
    IF n = 0 THEN {<<>>}
    ELSE LET shorter == ListsOver(records, n - 1)
         IN shorter \cup {Append(l, r) : l \in {t \in shorter : Len(t) = n - 1},
                                          r \in records}

\* The three files of the draft/final/copy scenario, in that order, with
\* any modification times.
ScenarioLists ==
    { << <<b_draft_docx, t[1]>>, <<a_final_pdf, t[2]>>,
         <<a_final_copy_pdf, t[3]>> >> :
        t \in ScenarioTimes \X ScenarioTimes \X ScenarioTimes }

FileLists == ListsOver(ShortPaths \X Times, MaxFiles) \cup ScenarioLists

Thresholds == {0, 50, 80, 101}

OtherGroupVars == <<filename, normalized, s1, s2, score, paths, sheet_names,
                    collected, idx, sheets, written>>

Init ==
    /\ pc = "group_call"
    /\ file_list \in FileLists
    /\ threshold \in Thresholds
    /\ groups = <<>> /\ data = <<>>
    /\ filename = <<>> /\ normalized = <<>>
    /\ s1 = <<>> /\ s2 = <<>> /\ score = 0
    /\ paths = <<>> /\ sheet_names = <<>> /\ collected = <<>> /\ idx = 0
    /\ sheets = <<>> /\ written = <<>>

\* grouped_files = group_files(all_collected_files, threshold)
Group ==
    /\ pc = "group_call"
    /\ groups' = group_files(file_list, threshold)
    /\ pc' = "grouped"
    /\ UNCHANGED <<file_list, threshold, data, OtherGroupVars>>

\* for group in grouped_files: data.append({...})
Summarize ==
    /\ pc = "grouped"
    /\ data' = summary_rows(groups)
    /\ pc' = "summarized"
    /\ UNCHANGED <<file_list, threshold, groups, OtherGroupVars>>

Next == Group \/ Summarize

Spec == Init /\ [][Next]_vars

----------------------------------------------------------------------------
(* Properties of group_files and of the summary rows.                      *)

Range(seq) == {seq[k] : k \in 1..Len(seq)}

RECURSIVE Flatten(_)
Flatten(gs) == IF gs = <<>> THEN <<>> ELSE Head(gs) \o Flatten(Tail(gs))

Count(seq, r) == Cardinality({k \in 1..Len(seq) : seq[k] = r})

SameGroup(gs, r1, r2) ==
    \E g \in 1..Len(gs) : r1 \in Range(gs[g]) /\ r2 \in Range(gs[g])

NormOf(record) == normalize_for_match(basename(record[1]))

\* C1: the groups partition the input: no group is empty, and every
\* record occurs in the groups exactly as many times as in the input (so
\* no input yields zero groups and one record yields one group of it).
C1_Partition ==
    pc = "grouped" =>
        /\ \A g \in 1..Len(groups) : groups[g] # <<>>
        /\ Len(Flatten(groups)) = Len(file_list)
        /\ \A r \in Range(file_list) \cup Range(Flatten(groups)) :
               Count(Flatten(groups), r) = Count(file_list, r)
        /\ \A g, h \in 1..Len(groups) :
               g # h => Range(groups[g]) \cap Range(groups[h]) = {}
        /\ file_list = <<>> => groups = <<>>
        /\ Len(file_list) = 1 => groups = << <<file_list[1]>> >>

\* Three files have been split into two groups, the later one formed after
\* a file between its members and the first anchor was absorbed.
C1_Witness ==
    /\ pc = "grouped"
    /\ threshold = 50
    /\ file_list = << <<<<"b", "c">>, 1>>, <<<<"a", "b", "c">>, 0>>,
                      <<<<"a">>, 1>> >>
    /\ groups = << << <<<<"a">>, 1>>, <<<<"a", "b", "c">>, 0>> >>,
                   << <<<<"b", "c">>, 1>> >> >>

\* C2: two records whose basenames have the same normalized name are in
\* the same group, whatever the threshold.
C2_SameStemSameGroup ==
    pc = "grouped" =>
        \A g, h \in 1..Len(groups) :
            \A k \in 1..Len(groups[g]), m \in 1..Len(groups[h]) :
                NormOf(groups[g][k]) = NormOf(groups[h][m]) => g = h

\* Two files of the stem "bc" have been absorbed, by score, by the earlier
\* anchor "abc".
C2_Witness ==
    /\ pc = "grouped"
    /\ threshold = 80
    /\ groups = << << <<<<"a", "b", "c">>, 1>>, <<<<"b", "c">>, 0>>,
                      <<<<"d", "/", "b", "c">>, 1>> >> >>

\* C3 (as stated): two records that are in different groups at the
\* threshold are in different groups at every higher threshold.
C3_AsStated ==
    pc = "grouped" =>
        \A t2 \in Thresholds :
            t2 > threshold =>
                \A r1, r2 \in Range(file_list) :
                    SameGroup(group_files(file_list, t2), r1, r2)
                        => SameGroup(groups, r1, r2)

\* C3 (amended): a record that is in a different group than the first
\* record in path order at the threshold is in a different group than it
\* at every higher threshold.
C3_FirstGroupShrinks ==
    (pc = "grouped" /\ file_list # <<>>) =>
        \A t2 \in Thresholds :
            t2 > threshold =>
                \A r \in Range(file_list) :
                    SameGroup(group_files(file_list, t2),
                              sorted_by_path(file_list)[1], r)
                        => SameGroup(groups, sorted_by_path(file_list)[1], r)

\* At 50 "a" holds "abc" and "bc" is alone; at 80 "a" has lost "abc",
\* which has become the anchor that absorbs "bc".
C3_Witness ==
    /\ pc = "grouped"
    /\ threshold = 50
    /\ file_list = << <<<<"a">>, 0>>, <<<<"a", "b", "c">>, 0>>,
                      <<<<"b", "c">>, 0>> >>
    /\ groups = << << <<<<"a">>, 0>>, <<<<"a", "b", "c">>, 0>> >>,
                   << <<<<"b", "c">>, 0>> >> >>
    /\ group_files(file_list, 80) =
           << << <<<<"a">>, 0>> >>,
              << <<<<"a", "b", "c">>, 0>>, <<<<"b", "c">>, 0>> >> >>

IsScenario ==
    /\ Len(file_list) = 3
    /\ file_list[1][1] = b_draft_docx
    /\ file_list[2][1] = a_final_pdf
    /\ file_list[3][1] = a_final_copy_pdf
    /\ file_list[1][2] < file_list[2][2]
    /\ file_list[2][2] < file_list[3][2]
    /\ threshold = 80

a_final_copy == <<"a", "_", "f", "i", "n", "a", "l", " ", "(", "c", "o", "p",
                  "y", ")">>

\* C4 (as stated): the scenario yields two groups, {a_final.pdf,
\* a_final (copy).pdf} and {b_draft.docx}, and the merged group's row is
\* "a_final (copy)", Yes, No, "a_final.pdf, a_final (copy).pdf".
C4_AsStated ==
    (pc = "summarized" /\ IsScenario) =>
        /\ Len(groups) = 2
        /\ \E g \in 1..2 : groups[g] = <<file_list[1]>>
        /\ \E g \in 1..2 :
               /\ groups[g] = <<file_list[2], file_list[3]>>
               /\ data[g].file_name = a_final_copy
               /\ data[g].pdf_exists = "Yes"
               /\ data[g].word_exists = "No"
               /\ data[g].all_file_names =
                      a_final_pdf \o <<",", " ">> \o a_final_copy_pdf

\* C4 (amended): the scenario yields three groups of one file each, in
\* the order a_final (copy).pdf, a_final.pdf, b_draft.docx (the stems
\* "a_final (copy)" and "a_final" score 67, below 80); the row of the first
\* is "a_final (copy)", Yes, No, "a_final (copy).pdf".
C4_Scenario ==
    (pc = "summarized" /\ IsScenario) =>
        /\ ratio(NormOf(file_list[2]), NormOf(file_list[3])) = 67
        /\ groups = << <<file_list[3]>>, <<file_list[2]>>, <<file_list[1]>> >>
        /\ data[1].file_name = a_final_copy
        /\ data[1].pdf_exists = "Yes"
        /\ data[1].word_exists = "No"
        /\ data[1].last_modified = file_list[3][2]
        /\ data[1].all_file_names = a_final_copy_pdf
        /\ data[3].word_exists = "Yes" /\ data[3].pdf_exists = "No"

\* The scenario has been grouped and summarised.
C4_Witness ==
    /\ pc = "summarized"
    /\ IsScenario
    /\ Len(data) = 3

PermutationsOf(list) ==
    {[k \in 1..Len(list) |-> list[f[k]]] : f \in Permutations(1..Len(list))}

DistinctPaths(list) ==
    \A k, m \in 1..Len(list) :
        list[k][1] = list[m][1] => list[k][2] = list[m][2]

C6_Representative ==
    pc = "summarized" =>
        \A g \in 1..Len(groups) :
            \E k \in 1..Len(groups[g]) :
                /\ \A m \in 1..Len(groups[g]) : groups[g][m][2] <= groups[g][k][2]
                /\ \A m \in 1..(k - 1) : groups[g][m][2] < groups[g][k][2]
                /\ data[g].file_name = splitext_root(basename(groups[g][k][1]))
                /\ data[g].last_modified = groups[g][k][2]

\* A group whose two latest members share the maximum time has been
\* summarised under the name of the earlier of the two.
C6_Witness ==
    /\ pc = "summarized"
    /\ groups = << << <<<<"A", ".", "p">>, 0>>, <<<<"a", "b", "c">>, 1>>,
                      <<<<"d", "/", "b", "c">>, 1>> >> >>
    /\ data[1].file_name = <<"a", "b", "c">>
    /\ data[1].last_modified = 1

\* The position in the flattened groups of member k of group g.
FlatPos(gs, g, k) == Len(Flatten(SubSeq(gs, 1, g - 1))) + k

\* pos places the members of the groups at positions of the path-sorted
\* input: pos[FlatPos(gs, g, k)] is the sorted position of member k of
\* group g, and every sorted position is used once.
PlacesMembers(pos, gs, sorted_files) ==
    \A g \in 1..Len(gs) :
        \A k \in 1..Len(gs[g]) :
            gs[g][k] = sorted_files[pos[FlatPos(gs, g, k)]]

\* The number of records that a stable sort by path puts before record k
\* of the list: those of a smaller path, and the earlier ones of its path.
Before(list, k) ==
    Cardinality({m \in 1..Len(list) :
                    \/ StrLess(list[m][1], list[k][1])
                    \/ list[m][1] = list[k][1] /\ m < k})

\* The input in path order, records of one path in input order.
PathSorted(list) ==
    [p \in 1..Len(list) |->
        list[CHOOSE k \in 1..Len(list) : Before(list, k) = p - 1]]

\* C11: the members of the groups can be placed at the positions of the
\* path-sorted input so that the first member of each group has the
\* smallest position of its group, the members of each group are in
\* strictly increasing position, and the groups are in strictly increasing
\* position of their first members.
C11_OrderOfGroups ==
    pc = "grouped" =>
        /\ Len(Flatten(groups)) = Len(file_list)
        /\ \E pos \in Permutations(1..Len(file_list)) :
               /\ PlacesMembers(pos, groups, PathSorted(file_list))
               /\ \A g \in 1..Len(groups) :
                      \A k \in 2..Len(groups[g]) :
                          /\ pos[FlatPos(groups, g, 1)] < pos[FlatPos(groups, g, k)]
                          /\ pos[FlatPos(groups, g, k - 1)]
                                 < pos[FlatPos(groups, g, k)]
               /\ \A g \in 2..Len(groups) :
                      pos[FlatPos(groups, g - 1, 1)] < pos[FlatPos(groups, g, 1)]

\* An input given out of path order has produced two groups whose members
\* interleave in path order: "B" lies between "A.p" and "a".
C11_Witness ==
    /\ pc = "grouped"
    /\ threshold = 80
    /\ file_list = << <<<<"a">>, 1>>, <<<<"B">>, 0>>, <<<<"A", ".", "p">>, 0>> >>
    /\ groups = << << <<<<"A", ".", "p">>, 0>>, <<<<"a">>, 1>> >>,
                   << <<<<"B">>, 0>> >> >>

\* C12: every member of a group other than the first has the first
\* member's normalized name or scores at least the threshold against it;
\* a record that matches only a later member is not in the group.
C12_AnchorFixed ==
    pc = "grouped" =>
        \A g \in 1..Len(groups) :
            \A k \in 2..Len(groups[g]) :
                \/ NormOf(groups[g][k]) = NormOf(groups[g][1])
                \/ ratio(NormOf(groups[g][1]), NormOf(groups[g][k])) >= threshold

\* The chain a ~ abc ~ bc at threshold 50, a not matching bc: abc is in the
\* group of a, and bc, which matches abc alone, is not.
C12_Witness ==
    /\ pc = "grouped"
    /\ threshold = 50
    /\ file_list = << <<<<"a", "b", "c">>, 1>>, <<<<"b", "c">>, 0>>,
                      <<<<"a">>, 1>> >>
    /\ ratio(<<"a">>, <<"a", "b", "c">>) >= threshold
    /\ ratio(<<"a", "b", "c">>, <<"b", "c">>) >= threshold
    /\ ratio(<<"a">>, <<"b", "c">>) < threshold
    /\ groups = << << <<<<"a">>, 1>>, <<<<"a", "b", "c">>, 1>> >>,
                   << <<<<"b", "c">>, 0>> >> >>

\* C13: for a group listed before another, no member of the later group
\* has the normalized name of the earlier group's first member or scores
\* at least the threshold against it: whatever matched an anchor and was
\* unassigned when its group was formed is in that group.
C13_GreedyMaximal ==
    pc = "grouped" =>
        \A g, h \in 1..Len(groups) :
            g < h =>
                \A k \in 1..Len(groups[h]) :
                    /\ NormOf(groups[h][k]) # NormOf(groups[g][1])
                    /\ ratio(NormOf(groups[g][1]), NormOf(groups[h][k]))
                           < threshold

\* The anchor "A.p" has passed over "B", which it does not match, and has
\* absorbed the later "a"; "B" was left for the second group.
C13_Witness ==
    /\ pc = "grouped"
    /\ threshold = 101
    /\ file_list = << <<<<"B">>, 1>>, <<<<"A", ".", "p">>, 1>>, <<<<"a">>, 0>> >>
    /\ groups = << << <<<<"A", ".", "p">>, 1>>, <<<<"a">>, 0>> >>,
                   << <<<<"B">>, 1>> >> >>

----------------------------------------------------------------------------
(* scan_files: the loop over the source paths, one sheet per path.         *)
(*                                                                         *)
(* The traversal is an input: collected[i] is all_collected_files of path  *)
(* i, or NotFound when os.path.exists is false.  writer.sheets maps each   *)
(* title to the rows last written under it.  What df.to_excel does with a  *)
(* title that already exists is the library's choice, and both outcomes    *)
(* are modelled: it raises ValueError (the case the except branch is       *)
(* written for), or it writes into the existing sheet.                     *)

sheet_name_limit == 31

default_threshold == 80

NotFound == "not found"

cwd == <<"/", "r">>

\* os.path.abspath of a relative path without "." or ".." components
\* other than the path "." itself.
abspath(p) == IF p = <<".">> THEN cwd ELSE cwd \o <<"/">> \o p

\* not target_path or not target_path.strip()
is_blank(p) == \A k \in 1..Len(p) : p[k] = " "

\* str(n) for n >= 0
RECURSIVE str_int(_)
str_int(n) ==
    IF n < 10 THEN <<Chr(48 + n)>>
    ELSE str_int(n \div 10) \o <<Chr(48 + (n % 10))>>

Root == <<"R", "o", "o", "t">>

\* sheet_name[:31]
truncate(name) ==
    IF Len(name) > sheet_name_limit THEN Slice(name, 0, sheet_name_limit)
    ELSE name

\* The sheet name of path i (0-based), already limited to 31 characters.
sheet_name_of(i) ==
    LET target_path == paths[i + 1]
        chosen == IF i < Len(sheet_names) THEN sheet_names[i + 1]
                  ELSE IF target_path = <<".">> THEN Root
                  ELSE IF basename(abspath(target_path)) = <<>> THEN Root
                  ELSE basename(abspath(target_path))
    IN truncate(chosen)

\* f"{sheet_name}_{i}"
final_sheet_name(sheet_name, i) == sheet_name \o <<"_">> \o str_int(i)

\* The rows of path i: group at the fixed threshold, then summarise.
rows_of(i) == summary_rows(group_files(collected[i + 1], default_threshold))

put_sheet(title, rows) ==
    [t \in DOMAIN sheets \cup {title} |->
        IF t = title THEN rows ELSE sheets[t]]

MaxPaths == 3

ScanPaths == { <<" ">>, <<".">>, <<"d", "/", "a">> }

LongName == [k \in 1..(sheet_name_limit + 1) |-> "a"]

SheetNameChoices == { <<"a">>, <<"a", "_", "2">>, LongName }

ScanFileLists ==
    { NotFound, << <<<<"d", "/", "b", "c">>, 1>>, <<<<"a", "b", "c">>, 0>> >> }

SeqsOfLen(S, n) == [1..n -> S]

OtherScanVars == <<filename, normalized, s1, s2, score, file_list, threshold,
                   groups, data>>

InitScan ==
    /\ pc = "scan_loop"
    /\ \E n \in 0..MaxPaths :
           /\ paths \in SeqsOfLen(ScanPaths, n)
           /\ collected \in SeqsOfLen(ScanFileLists, n)
           /\ \E m \in 0..n : sheet_names \in SeqsOfLen(SheetNameChoices, m)
    /\ idx = 0
    /\ sheets = <<>> /\ written = <<>>
    /\ filename = <<>> /\ normalized = <<>>
    /\ s1 = <<>> /\ s2 = <<>> /\ score = 0
    /\ file_list = <<>> /\ threshold = 0 /\ groups = <<>> /\ data = <<>>

InLoop == pc = "scan_loop" /\ idx < Len(paths)

Processed ==
    /\ InLoop
    /\ ~is_blank(paths[idx + 1])
    /\ collected[idx + 1] # NotFound

\* An empty path is skipped.
SkipEmptyPath ==
    /\ InLoop
    /\ is_blank(paths[idx + 1])
    /\ idx' = idx + 1
    /\ UNCHANGED <<pc, paths, sheet_names, collected, sheets, written,
                   OtherScanVars>>

\* A path that does not exist is skipped.
SkipMissingPath ==
    /\ InLoop
    /\ ~is_blank(paths[idx + 1])
    /\ collected[idx + 1] = NotFound
    /\ idx' = idx + 1
    /\ UNCHANGED <<pc, paths, sheet_names, collected, sheets, written,
                   OtherScanVars>>

\* df.to_excel succeeds under sheet_name: a new sheet, or the existing
\* sheet of that title when the library does not raise.
WriteSheet ==
    /\ Processed
    /\ sheets' = put_sheet(sheet_name_of(idx), rows_of(idx))
    /\ written' = Append(written, [i |-> idx, sheet_name |-> sheet_name_of(idx),
                                   title |-> sheet_name_of(idx)])
    /\ idx' = idx + 1
    /\ UNCHANGED <<pc, paths, sheet_names, collected, OtherScanVars>>

\* df.to_excel raises ValueError for the existing title, and the second
\* df.to_excel succeeds under final_sheet_name.
WriteRenamedSheet ==
    /\ Processed
    /\ sheet_name_of(idx) \in DOMAIN sheets
    /\ sheets' = put_sheet(final_sheet_name(sheet_name_of(idx), idx),
                           rows_of(idx))
    /\ written' = Append(written,
                         [i |-> idx, sheet_name |-> sheet_name_of(idx),
                          title |-> final_sheet_name(sheet_name_of(idx), idx)])
    /\ idx' = idx + 1
    /\ UNCHANGED <<pc, paths, sheet_names, collected, OtherScanVars>>

\* Both df.to_excel calls raise ValueError: the outer except ends the scan.
WriteFails ==
    /\ Processed
    /\ sheet_name_of(idx) \in DOMAIN sheets
    /\ final_sheet_name(sheet_name_of(idx), idx) \in DOMAIN sheets
    /\ pc' = "scan_failed"
    /\ UNCHANGED <<idx, paths, sheet_names, collected, sheets, written,
                   OtherScanVars>>

\* The loop is over and the writer is closed.
FinishScan ==
    /\ pc = "scan_loop"
    /\ idx = Len(paths)
    /\ pc' = "scan_done"
    /\ UNCHANGED <<idx, paths, sheet_names, collected, sheets, written,
                   OtherScanVars>>

NextScan ==
    \/ SkipEmptyPath
    \/ SkipMissingPath
    \/ WriteSheet
    \/ WriteRenamedSheet
    \/ WriteFails
    \/ FinishScan

SpecScan == InitScan /\ [][NextScan]_vars

\* C10: every sheet written has a title of at most 31 characters, no two
\* writes share a title, and a path whose truncated name was already
\* written is written under that name with "_" and its index appended.
C10_SheetTitles ==
    /\ \A k \in 1..Len(written) : Len(written[k].title) <= sheet_name_limit
    /\ \A k, m \in 1..Len(written) :
           k # m => written[k].title # written[m].title
    /\ \A k \in 1..Len(written) :
           (\E m \in 1..(k - 1) : written[m].title = written[k].sheet_name)
               => written[k].title =
                      final_sheet_name(written[k].sheet_name, written[k].i)

====
